---- MODULE Spec2Model ----
(***************************************************************************)
(* Model of src/lib/official-status/anthropic.ts: checkAnthropicStatus()   *)
(* and parseAnthropicStatus().  Each invocation of checkAnthropicStatus is *)
(* an async function: it runs to its first await (the fetch), is resumed   *)
(* when the fetch promise settles, runs to its second await (the body      *)
(* read, response.json()), and is resumed when that settles.  The timer    *)
(* callback, the network events and the clock are the environment.         *)
(*                                                                         *)
(* Strings are sequences of one-character strings, so that toLowerCase,    *)
(* the template literal `HTTP ${status}` and toISOString are computed.     *)
(* A character outside ASCII is written as its code point.                 *)
(***************************************************************************)
EXTENDS Integers, Sequences, FiniteSets, TLC

(***************************************************************************)
(* Bounds of the model.                                                    *)
(***************************************************************************)
NumCalls == 2          \* invocations of checkAnthropicStatus()
MaxTicks == 4          \* clock advances in one behaviour
TickMs == 5000         \* milliseconds per clock advance

Calls == 1..NumCalls

(***************************************************************************)
(* State.                                                                  *)
(***************************************************************************)
VARIABLES
  now,        \* the clock, in milliseconds
  ticks,      \* clock advances so far
  pc,         \* position of each invocation
  startedAt,  \* clock value at which each invocation was called
  clockReads, \* number of reads of the clock by each invocation
  checkedAt,  \* the local checkedAt of each invocation
  timer,      \* state of each invocation's timeout timer
  deadline,   \* instant from which the timer may fire
  aborted,    \* controller.signal.aborted of each invocation
  net,        \* state of each invocation's HTTP exchange
  requests,   \* number of requests each invocation has issued
  code,       \* HTTP status code of the response received
  body,       \* payload delivered to response.json()
  bodyRead,   \* response.json() has been called
  error,      \* name of the exception caught
  logged,     \* calls of logError made by each invocation
  result,     \* value each invocation returned
  ppc,        \* position of the direct application of parseAnthropicStatus
  word,       \* lower-case spelling the indicator of input was written from
  input,      \* payload handed to parseAnthropicStatus
  parsed      \* what parseAnthropicStatus returned

vars == << now, ticks, pc, startedAt, clockReads, checkedAt, timer, deadline,
           aborted, net, requests, code, body, bodyRead, error, logged, result,
           ppc, word, input, parsed >>

\* The state of the invocations, and the state of the direct application of
\* parseAnthropicStatus.
callVars == << now, ticks, pc, startedAt, clockReads, checkedAt, timer,
               deadline, aborted, net, requests, code, body, bodyRead, error,
               logged, result >>
parseVars == << ppc, word, input, parsed >>

(***************************************************************************)
(* Program constants.                                                      *)
(***************************************************************************)
TIMEOUT_MS == 15000

OpName == "checkAnthropicStatus"

MsgTimeout == <<"U+68C0", "U+67E5", "U+8D85", "U+65F6">>
MsgFailed == <<"U+68C0", "U+67E5", "U+5931", "U+8D25">>
MsgFallback == <<"U+672A", "U+77E5", "U+72B6", "U+6001">>

(***************************************************************************)
(* JavaScript strings.                                                     *)
(***************************************************************************)
Lower == <<"a", "c", "e", "f", "i", "j", "l", "m", "n", "o", "r", "t">>
Upper == <<"A", "C", "E", "F", "I", "J", "L", "M", "N", "O", "R", "T">>

\* String.prototype.toLowerCase on one character.
LowerChar(c) ==
  IF \E k \in 1..Len(Upper) : Upper[k] = c
    THEN Lower[CHOOSE k \in 1..Len(Upper) : Upper[k] = c]
    ELSE c

\* The indicator compared as it was received, without lower-casing.
ToLowerCase_Identity(s) == s

\* String.prototype.toLowerCase.
ToLowerCase(s) == [k \in 1..Len(s) |-> LowerChar(s[k])]

DigitChar(d) == <<"0", "1", "2", "3", "4", "5", "6", "7", "8", "9">>[d + 1]

RECURSIVE Digits(_)
\* Number to string, as the template literal does for a non-negative integer.
Digits(n) == IF n < 10 THEN <<DigitChar(n)>>
             ELSE Digits(n \div 10) \o <<DigitChar(n % 10)>>

\* `HTTP ${response.status}`
HttpMessage(status) == <<"H", "T", "T", "P", " ">> \o Digits(status)

\* Date.prototype.toISOString for an instant of 1970-01-01, as the fields
\* <<hours, minutes, seconds, milliseconds>> of "1970-01-01THH:MM:SS.mmmZ".
ToISOString(t) ==
  << (t \div 3600000) % 24, (t \div 60000) % 60, (t \div 1000) % 60, t % 1000 >>

\* Order of two ISO timestamps as strings (lexicographic on the fields,
\* which are zero-padded to a fixed width in the string).
IsoLess(a, b) ==
  \E k \in 1..4 : a[k] < b[k] /\ \A j \in 1..(k - 1) : a[j] = b[j]

(***************************************************************************)
(* JSON values read from the payload: a string or undefined.               *)
(***************************************************************************)
Str(s) == [type |-> "string", val |-> s]
Undefined == [type |-> "undefined", val |-> <<>>]

\* The description used as it is, without the fallback.
OrFallback_NoFallback(description) == description.val

\* description || <fallback>: a falsy description (undefined, "") gives
\* the fallback.
OrFallback(description) ==
  IF description.type = "string" /\ Len(description.val) > 0
    THEN description.val
    ELSE MsgFallback

\* The switch of parseAnthropicStatus on the lower-cased indicator.
MapIndicator(indicator) ==
  CASE indicator = <<"n", "o", "n", "e">> -> "operational"
    [] indicator = <<"m", "i", "n", "o", "r">> -> "degraded"
    [] indicator = <<"m", "a", "j", "o", "r">> -> "down"
    [] indicator = <<"c", "r", "i", "t", "i", "c", "a", "l">> -> "down"
    [] OTHER -> "unknown"

\* data.status.indicator.toLowerCase() raises a TypeError when data.status
\* is undefined or the indicator is not a string.
ParseThrows(data) == ~data.hasStatus \/ data.indicator.type # "string"

parseAnthropicStatus(data, at) ==
  [status |-> MapIndicator(ToLowerCase(data.indicator.val)),
   message |-> OrFallback(data.description),
   checkedAt |-> at]

\* A test of the status code that forgets the upper end of the 2xx range.
ResponseOk_NoUpperBound(status) == status >= 200

\* response.ok
ResponseOk(status) == status \in 200..299

\* A clearTimeout that is left out: the timer stays as it is.
ClearTimeout_Noop(t) == t

\* clearTimeout(timeoutId): disarms an armed timer, no effect otherwise.
ClearTimeout(t) == IF t = "armed" THEN "cleared" ELSE t

\* A catch block that stamps the result with the clock at completion.
CatchResult_CompletionTime(name, at) ==
  IF name = "AbortError"
    THEN [status |-> "unknown", message |-> MsgTimeout,
          checkedAt |-> ToISOString(now)]
    ELSE [status |-> "unknown", message |-> MsgFailed,
          checkedAt |-> ToISOString(now)]

\* A catch block that gives a failure to parse the body its own message.
CatchResult_ParseMessage(name, at) ==
  IF name = "AbortError"
    THEN [status |-> "unknown", message |-> MsgTimeout, checkedAt |-> at]
    ELSE IF name = "SyntaxError"
      THEN [status |-> "unknown", message |-> <<"J", "S", "O", "N">>, checkedAt |-> at]
      ELSE [status |-> "unknown", message |-> MsgFailed, checkedAt |-> at]

\* A catch block that reports every exception as a timeout.
CatchResult_AlwaysTimeout(name, at) ==
  [status |-> "unknown", message |-> MsgTimeout, checkedAt |-> at]

\* The branch of the catch block on error.name.
CatchResult(name, at) ==
  IF name = "AbortError"
    THEN [status |-> "unknown", message |-> MsgTimeout, checkedAt |-> at]
    ELSE [status |-> "unknown", message |-> MsgFailed, checkedAt |-> at]

\* logError(op, error): the collaborator records the operation name and the
\* error, and either returns or raises.
LogError(log, op, name) == Append(log, <<op, name>>)
LogErrorOutcomes == {"returns", "raises"}

(***************************************************************************)
(* Inputs of the environment.                                              *)
(***************************************************************************)
StartInstant == 3590999    \* 00:59:50.999, so that the clock crosses the hour
StatusCodes == {200, 404, 503}

Indicators ==
  { Str(<<"n", "o", "n", "e">>), Str(<<"M", "A", "J", "O", "R">>),
    Str(<<"f", "o", "o">>), Str(<<>>), Undefined }
Descriptions == { Str(<<"O", "K">>), Str(<<>>), Undefined }

Payload(i, d) == [json |-> TRUE, hasStatus |-> TRUE, indicator |-> i, description |-> d]
NoStatusPayload ==
  [json |-> TRUE, hasStatus |-> FALSE, indicator |-> Undefined, description |-> Undefined]
NotJson ==
  [json |-> FALSE, hasStatus |-> FALSE, indicator |-> Undefined, description |-> Undefined]

Bodies == { Payload(i, d) : i \in Indicators, d \in Descriptions }
            \cup {NoStatusPayload, NotJson}

NoResult == [status |-> "none", message |-> <<>>, checkedAt |-> <<>>]
NoBody == NotJson

InitCalls ==
  /\ now = StartInstant
  /\ ticks = 0
  /\ pc = [i \in Calls |-> "idle"]
  /\ startedAt = [i \in Calls |-> 0]
  /\ clockReads = [i \in Calls |-> 0]
  /\ checkedAt = [i \in Calls |-> <<>>]
  /\ timer = [i \in Calls |-> "none"]
  /\ deadline = [i \in Calls |-> 0]
  /\ aborted = [i \in Calls |-> FALSE]
  /\ net = [i \in Calls |-> "none"]
  /\ requests = [i \in Calls |-> 0]
  /\ code = [i \in Calls |-> 0]
  /\ body = [i \in Calls |-> NoBody]
  /\ bodyRead = [i \in Calls |-> FALSE]
  /\ error = [i \in Calls |-> "none"]
  /\ logged = [i \in Calls |-> <<>>]
  /\ result = [i \in Calls |-> NoResult]

Init ==
  /\ InitCalls
  /\ ppc = "off"
  /\ word = <<>>
  /\ input = NoBody
  /\ parsed = NoResult

(***************************************************************************)
(* The clock advances.                                                     *)
(***************************************************************************)
Tick ==
  /\ ticks < MaxTicks
  /\ ticks' = ticks + 1
  /\ now' = now + TickMs
  /\ UNCHANGED << pc, startedAt, clockReads, checkedAt, timer, deadline,
                  aborted, net, requests, code, body, bodyRead, error,
                  logged, result, parseVars >>

(***************************************************************************)
(* checkAnthropicStatus() is called and runs to `await fetch(...)`:        *)
(* checkedAt is read from the clock, the controller is created, the timer  *)
(* is armed and the request is issued.  Invocations are numbered in the    *)
(* order of their calls, and calls are made while the clock of the model   *)
(* can still reach the deadline.                                           *)
(***************************************************************************)
Call(i) ==
  /\ pc[i] = "idle"
  /\ \A j \in Calls : j < i => pc[j] # "idle"
  /\ (ticks * TickMs) + TIMEOUT_MS <= MaxTicks * TickMs
  /\ startedAt' = [startedAt EXCEPT ![i] = now]
  /\ clockReads' = [clockReads EXCEPT ![i] = @ + 1]
  /\ checkedAt' = [checkedAt EXCEPT ![i] = ToISOString(now)]
  /\ aborted' = [aborted EXCEPT ![i] = FALSE]
  /\ timer' = [timer EXCEPT ![i] = "armed"]
  /\ deadline' = [deadline EXCEPT ![i] = now + TIMEOUT_MS]
  /\ net' = [net EXCEPT ![i] = "pending"]
  /\ requests' = [requests EXCEPT ![i] = @ + 1]
  /\ pc' = [pc EXCEPT ![i] = "fetch"]
  /\ UNCHANGED << now, ticks, code, body, bodyRead, error, logged, result,
                  parseVars >>

\* A fetch that is not tied to the abort signal: the response of a request
\* whose invocation was already resumed by the abort is still processed.
ResponseArrives_AfterAbort(i, c) ==
  /\ pc[i] \in {"fetch", "catch"}
  /\ net[i] \in {"pending", "aborted"}
  /\ code' = [code EXCEPT ![i] = c]
  /\ timer' = [timer EXCEPT ![i] = ClearTimeout(@)]
  /\ IF ~ResponseOk(c)
       THEN /\ result' = [result EXCEPT ![i] =
                 [status |-> "unknown", message |-> HttpMessage(c),
                  checkedAt |-> checkedAt[i]]]
            /\ pc' = [pc EXCEPT ![i] = "done"]
            /\ net' = [net EXCEPT ![i] = "headers"]
            /\ UNCHANGED bodyRead
       ELSE /\ bodyRead' = [bodyRead EXCEPT ![i] = TRUE]
            /\ pc' = [pc EXCEPT ![i] = "body"]
            /\ net' = [net EXCEPT ![i] = "streaming"]
            /\ UNCHANGED result
  /\ UNCHANGED << now, ticks, startedAt, clockReads, checkedAt, deadline,
                  aborted, requests, body, error, logged, parseVars >>

(***************************************************************************)
(* The response headers arrive: the fetch promise is fulfilled and the     *)
(* function resumes: clearTimeout, the test of response.ok, and either the *)
(* return of the HTTP result or the call of response.json().               *)
(***************************************************************************)
ResponseArrives(i, c) ==
  /\ pc[i] = "fetch"
  /\ net[i] = "pending"
  /\ code' = [code EXCEPT ![i] = c]
  /\ timer' = [timer EXCEPT ![i] = ClearTimeout(@)]
  /\ IF ~ResponseOk(c)
       THEN /\ result' = [result EXCEPT ![i] =
                 [status |-> "unknown", message |-> HttpMessage(c),
                  checkedAt |-> checkedAt[i]]]
            /\ pc' = [pc EXCEPT ![i] = "done"]
            /\ net' = [net EXCEPT ![i] = "headers"]
            /\ UNCHANGED bodyRead
       ELSE /\ bodyRead' = [bodyRead EXCEPT ![i] = TRUE]
            /\ pc' = [pc EXCEPT ![i] = "body"]
            /\ net' = [net EXCEPT ![i] = "streaming"]
            /\ UNCHANGED result
  /\ UNCHANGED << now, ticks, startedAt, clockReads, checkedAt, deadline,
                  aborted, requests, body, error, logged, parseVars >>

(***************************************************************************)
(* The exchange fails at the transport level (DNS, connection refused,     *)
(* connection reset while the body streams): the pending promise is        *)
(* rejected with a TypeError and the function resumes in the catch block.  *)
(***************************************************************************)
TransportFails(i) ==
  /\ pc[i] \in {"fetch", "body"}
  /\ net[i] \in {"pending", "streaming"}
  /\ net' = [net EXCEPT ![i] = "failed"]
  /\ error' = [error EXCEPT ![i] = "TypeError"]
  /\ pc' = [pc EXCEPT ![i] = "catch"]
  /\ UNCHANGED << now, ticks, startedAt, clockReads, checkedAt, timer,
                  deadline, aborted, requests, code, body, bodyRead, logged,
                  result, parseVars >>

\* A timer callback that aborts through one controller shared by all the
\* invocations: every exchange in progress is cancelled.
TimerFires_SharedController(i) ==
  /\ timer[i] = "armed"
  /\ now >= deadline[i]
  /\ timer' = [timer EXCEPT ![i] = "fired"]
  /\ aborted' = [j \in Calls |-> TRUE]
  /\ net' = [j \in Calls |->
               IF pc[j] \in {"fetch", "body"} /\ net[j] \in {"pending", "streaming"}
                 THEN "aborted" ELSE net[j]]
  /\ error' = [j \in Calls |->
               IF pc[j] \in {"fetch", "body"} /\ net[j] \in {"pending", "streaming"}
                 THEN "AbortError" ELSE error[j]]
  /\ pc' = [j \in Calls |->
               IF pc[j] \in {"fetch", "body"} /\ net[j] \in {"pending", "streaming"}
                 THEN "catch" ELSE pc[j]]
  /\ UNCHANGED << now, ticks, startedAt, clockReads, checkedAt, deadline,
                  requests, code, body, bodyRead, logged, result, parseVars >>

(***************************************************************************)
(* The timer callback, () => controller.abort(), runs once the deadline    *)
(* has passed and the timer is still armed.  An exchange in progress is    *)
(* cancelled and its pending promise is rejected with an AbortError.       *)
(***************************************************************************)
TimerFires(i) ==
  /\ timer[i] = "armed"
  /\ now >= deadline[i]
  /\ timer' = [timer EXCEPT ![i] = "fired"]
  /\ aborted' = [aborted EXCEPT ![i] = TRUE]
  /\ IF pc[i] \in {"fetch", "body"} /\ net[i] \in {"pending", "streaming"}
       THEN /\ net' = [net EXCEPT ![i] = "aborted"]
            /\ error' = [error EXCEPT ![i] = "AbortError"]
            /\ pc' = [pc EXCEPT ![i] = "catch"]
       ELSE UNCHANGED << net, error, pc >>
  /\ UNCHANGED << now, ticks, startedAt, clockReads, checkedAt, deadline,
                  requests, code, body, bodyRead, logged, result, parseVars >>

(***************************************************************************)
(* The body arrives in full: response.json() settles.  A body that is not  *)
(* JSON rejects with a SyntaxError; otherwise parseAnthropicStatus runs    *)
(* inside the try block and either returns the result or raises.           *)
(***************************************************************************)
BodyArrives(i, b) ==
  /\ pc[i] = "body"
  /\ net[i] = "streaming"
  /\ body' = [body EXCEPT ![i] = b]
  /\ net' = [net EXCEPT ![i] = "complete"]
  /\ IF ~b.json
       THEN /\ error' = [error EXCEPT ![i] = "SyntaxError"]
            /\ pc' = [pc EXCEPT ![i] = "catch"]
            /\ UNCHANGED result
       ELSE IF ParseThrows(b)
         THEN /\ error' = [error EXCEPT ![i] = "TypeError"]
              /\ pc' = [pc EXCEPT ![i] = "catch"]
              /\ UNCHANGED result
         ELSE /\ result' = [result EXCEPT ![i] =
                   parseAnthropicStatus(b, checkedAt[i])]
              /\ pc' = [pc EXCEPT ![i] = "done"]
              /\ UNCHANGED error
  /\ UNCHANGED << now, ticks, startedAt, clockReads, checkedAt, timer,
                  deadline, aborted, requests, code, bodyRead, logged,
                  parseVars >>

\* A catch block that re-issues the request once after a failure that is
\* not a timeout, instead of returning.
Catch_Retry(i, outcome) ==
  /\ pc[i] = "catch"
  /\ logged' = [logged EXCEPT ![i] = LogError(@, OpName, error[i])]
  /\ IF outcome = "raises"
       THEN /\ pc' = [pc EXCEPT ![i] = "rejected"]
            /\ UNCHANGED << result, net, requests >>
       ELSE IF error[i] # "AbortError" /\ requests[i] < 2
         THEN /\ pc' = [pc EXCEPT ![i] = "fetch"]
              /\ net' = [net EXCEPT ![i] = "pending"]
              /\ requests' = [requests EXCEPT ![i] = @ + 1]
              /\ UNCHANGED result
         ELSE /\ result' = [result EXCEPT ![i] = CatchResult(error[i], checkedAt[i])]
              /\ pc' = [pc EXCEPT ![i] = "done"]
              /\ UNCHANGED << net, requests >>
  /\ UNCHANGED << now, ticks, startedAt, clockReads, checkedAt, timer,
                  deadline, aborted, code, body, bodyRead, error, parseVars >>

(***************************************************************************)
(* The catch block: logError is called, and if it returns the result is    *)
(* chosen on error.name.  An exception raised by logError is not caught    *)
(* by anything and rejects the promise of the invocation.                  *)
(***************************************************************************)
Catch(i, outcome) ==
  /\ pc[i] = "catch"
  /\ logged' = [logged EXCEPT ![i] = LogError(@, OpName, error[i])]
  /\ IF outcome = "raises"
       THEN /\ pc' = [pc EXCEPT ![i] = "rejected"]
            /\ UNCHANGED result
       ELSE /\ result' = [result EXCEPT ![i] = CatchResult(error[i], checkedAt[i])]
            /\ pc' = [pc EXCEPT ![i] = "done"]
  /\ UNCHANGED << now, ticks, startedAt, clockReads, checkedAt, timer,
                  deadline, aborted, net, requests, code, body, bodyRead,
                  error, parseVars >>

Next ==
  \/ Tick
  \/ \E i \in Calls : Call(i)
  \/ \E i \in Calls, c \in StatusCodes : ResponseArrives(i, c)
  \/ \E i \in Calls : TransportFails(i)
  \/ \E i \in Calls : TimerFires(i)
  \/ \E i \in Calls, b \in Bodies : BodyArrives(i, b)
  \/ \E i \in Calls, o \in LogErrorOutcomes : Catch(i, o)

Spec == Init /\ [][Next]_vars

(***************************************************************************)
(* The invocations under the scheduling the runtime guarantees: the clock  *)
(* advances, a due timer runs its callback, and a function whose awaited   *)
(* promise has been rejected is resumed in its catch block.  Nothing       *)
(* obliges the network to deliver headers, a body or a failure.            *)
(***************************************************************************)
FairSpec ==
  /\ Spec
  /\ WF_vars(Tick)
  /\ \A i \in Calls : WF_vars(TimerFires(i))
  /\ \A i \in Calls : WF_vars(\E o \in LogErrorOutcomes : Catch(i, o))

(***************************************************************************)
(* parseAnthropicStatus applied directly to a payload whose indicator is   *)
(* any casing of a word.                                                   *)
(***************************************************************************)
UpperChar(c) ==
  IF \E k \in 1..Len(Lower) : Lower[k] = c
    THEN Upper[CHOOSE k \in 1..Len(Lower) : Lower[k] = c]
    ELSE c

Casings(w) ==
  { [k \in 1..Len(w) |-> IF k \in S THEN UpperChar(w[k]) ELSE w[k]] :
      S \in SUBSET (1..Len(w)) }

WordNone == <<"n", "o", "n", "e">>
WordMinor == <<"m", "i", "n", "o", "r">>
WordMajor == <<"m", "a", "j", "o", "r">>
WordCritical == <<"c", "r", "i", "t", "i", "c", "a", "l">>
WordFoo == <<"f", "o", "o">>
WordNon == <<"n", "o", "n">>
ParseWords == {WordNone, WordMinor, WordMajor, WordCritical, WordFoo, WordNon, <<>>}
ParseDescriptions == { Str(<<"O", "K">>), Str(<<>>), Undefined }

InitParse ==
  /\ InitCalls
  /\ ppc = "input"
  /\ word \in ParseWords
  /\ input \in { Payload(Str(s), d) : s \in Casings(word), d \in ParseDescriptions }
               \cup (IF word = <<>>
                       THEN { Payload(Undefined, d) : d \in ParseDescriptions }
                       ELSE {})
  /\ parsed = NoResult

Parse ==
  /\ ppc = "input"
  /\ IF ParseThrows(input)
       THEN ppc' = "raised" /\ UNCHANGED parsed
       ELSE /\ ppc' = "returned"
            /\ parsed' = parseAnthropicStatus(input, ToISOString(now))
  /\ UNCHANGED << word, input, callVars >>

NextParse == Parse

SpecParse == InitParse /\ [][NextParse]_vars

(***************************************************************************)
(* Properties.                                                             *)
(***************************************************************************)
Settled(i) == pc[i] \in {"done", "rejected"}

\* The request of invocation i ended in one of the failure outcomes: the
\* timer aborted it, the transport failed, the response was not 2xx, or the
\* body delivered was not a payload with a known indicator.
KnownWords == {WordNone, WordMinor, WordMajor, WordCritical}

WellFormed(b) == b.json /\ b.hasStatus /\ b.indicator.type = "string"

FailureOutcome(i) ==
  \/ net[i] \in {"aborted", "failed"}
  \/ net[i] = "headers" /\ code[i] \notin 200..299
  \/ net[i] = "complete" /\ ~body[i].json

\* C1: check() never throws to its caller: whatever the outcome of the
\* request, a settled invocation has returned a StatusResult, and on a
\* failure outcome (timeout, transport failure, non-2xx, body that does not
\* parse, unrecognized or missing indicator) its status is unknown.
C1_NeverThrows ==
  \A i \in Calls :
    /\ pc[i] # "rejected"
    /\ (pc[i] = "done" /\ (FailureOutcome(i) \/ (net[i] = "complete" /\
          (~WellFormed(body[i]) \/ ToLowerCase(body[i].indicator.val) \notin KnownWords))))
         => result[i].status = "unknown"

\* C2: every invocation that has been called eventually settles once the
\* timeout window has elapsed, whether the headers or the body of the
\* response are still outstanding.
C2_EventuallySettles ==
  \A i \in Calls : (pc[i] \in {"fetch", "body"}) ~> Settled(i)

\* C3: when the timer fires before the response arrives, the request is
\* aborted and the invocation returns unknown with the timeout message and
\* the checkedAt of its start; no exception escapes.
C3_TimeoutResult ==
  \A i \in Calls :
    (net[i] = "aborted" /\ Settled(i)) =>
      /\ aborted[i]
      /\ pc[i] = "done"
      /\ result[i] = [status |-> "unknown", message |-> MsgTimeout,
                      checkedAt |-> ToISOString(startedAt[i])]

\* C4: on every completion path the timer of the invocation is disarmed by
\* the time the result is produced: no invocation that has returned still
\* has an armed timer.
C4_TimerDisarmed ==
  \A i \in Calls : pc[i] = "done" => timer[i] # "armed"

\* C5: on any failure outcome (timeout, transport failure, non-2xx response,
\* malformed body) logError has been called with the operation name before
\* the result is returned.
C5_FailureLogged ==
  \A i \in Calls :
    (pc[i] = "done" /\ FailureOutcome(i)) =>
      \E k \in 1..Len(logged[i]) : logged[i][k][1] = OpName

\* C6: logging never affects the result or the control flow: an invocation
\* that called logError returns, and returns the result of its request
\* outcome, whether logError returned or raised.
C6_LoggingIsSideChannel ==
  \A i \in Calls :
    (Settled(i) /\ Len(logged[i]) > 0) =>
      /\ pc[i] = "done"
      /\ result[i] = CatchResult(error[i], checkedAt[i])

\* C7: for every casing of none, minor, major and critical, a payload with
\* that indicator is classified operational, degraded, down and down.
C7_IndicatorMapping ==
  (ppc # "input" /\ word \in KnownWords) =>
    /\ ppc = "returned"
    /\ word = WordNone => parsed.status = "operational"
    /\ word = WordMinor => parsed.status = "degraded"
    /\ word = WordMajor => parsed.status = "down"
    /\ word = WordCritical => parsed.status = "down"

C7_Witness ==
  /\ ppc = "returned"
  /\ word = WordMajor
  /\ input.indicator.val = <<"M", "A", "J", "O", "R">>
  /\ parsed.status = "down"

\* C8: a 2xx response whose payload parses and whose indicator is outside
\* the known set (unrecognized word, empty string, missing field) gives
\* unknown as a classification default: logError is not called and the
\* message is the description, or the fallback when it is empty.
C8_UnrecognizedIsNotAnError ==
  \A i \in Calls :
    ( /\ Settled(i)
      /\ net[i] = "complete"
      /\ body[i].json /\ body[i].hasStatus
      /\ (body[i].indicator.type = "undefined"
            \/ ToLowerCase(body[i].indicator.val) \notin KnownWords) ) =>
      /\ pc[i] = "done"
      /\ logged[i] = <<>>
      /\ result[i].status = "unknown"
      /\ result[i].message = OrFallback(body[i].description)

\* C9: a response with a non-2xx status code gives unknown with the message
\* "HTTP <code>" carrying that code, and the body is never read or parsed.
C9_HttpError ==
  \A i \in Calls :
    (code[i] # 0 /\ code[i] \notin 200..299) =>
      /\ pc[i] = "done"
      /\ result[i].status = "unknown"
      /\ result[i].checkedAt = checkedAt[i]
      /\ SubSeq(result[i].message, 1, 5) = <<"H", "T", "T", "P", " ">>
      /\ code[i] = 404 => result[i].message = <<"H", "T", "T", "P", " ", "4", "0", "4">>
      /\ code[i] = 503 => result[i].message = <<"H", "T", "T", "P", " ", "5", "0", "3">>
      /\ ~bodyRead[i]
      /\ body[i] = NoBody
      /\ logged[i] = <<>>

C9_Witness ==
  \E i \in Calls :
    /\ pc[i] = "done"
    /\ code[i] = 503
    /\ result[i].message = <<"H", "T", "T", "P", " ", "5", "0", "3">>

\* C10: checkedAt is read from the clock once per invocation, when the call
\* starts and with the request; every result returned carries that value
\* however late the call completes, and of two calls started at different
\* instants the later one returns the strictly greater checkedAt.
C10_CheckedAtIsStart ==
  /\ \A i \in Calls :
       /\ clockReads[i] = (IF pc[i] = "idle" THEN 0 ELSE 1)
       /\ requests[i] > 0 => clockReads[i] = 1
       /\ pc[i] = "done" => result[i].checkedAt = ToISOString(startedAt[i])
  /\ \A i, j \in Calls :
       (pc[i] = "done" /\ pc[j] = "done" /\ startedAt[i] < startedAt[j]) =>
         /\ IsoLess(result[i].checkedAt, result[j].checkedAt)
         /\ ~IsoLess(result[j].checkedAt, result[i].checkedAt)

C10_Witness ==
  /\ pc[1] = "done" /\ pc[2] = "done"
  /\ startedAt[1] < startedAt[2]
  /\ now > startedAt[2]
  /\ net[1] = "aborted" /\ net[2] = "complete"
  /\ result[1].checkedAt = <<0, 59, 50, 999>>
  /\ result[2].checkedAt = <<0, 59, 55, 999>>

\* The state that belongs to invocation i.
CallState(i) ==
  << pc[i], startedAt[i], clockReads[i], checkedAt[i], timer[i], deadline[i],
     aborted[i], net[i], requests[i], code[i], body[i], bodyRead[i], error[i],
     logged[i], result[i] >>

\* The result that the outcome of invocation i's own request calls for.
OwnResult(i) ==
  CASE net[i] = "aborted" ->
         [status |-> "unknown", message |-> MsgTimeout,
          checkedAt |-> ToISOString(startedAt[i])]
    [] net[i] = "headers" ->
         [status |-> "unknown", message |-> <<"H", "T", "T", "P", " ">> \o Digits(code[i]),
          checkedAt |-> ToISOString(startedAt[i])]
    [] net[i] = "complete" /\ WellFormed(body[i]) ->
         [status |-> MapIndicator(ToLowerCase(body[i].indicator.val)),
          message |-> OrFallback(body[i].description),
          checkedAt |-> ToISOString(startedAt[i])]
    [] OTHER ->
         [status |-> "unknown", message |-> MsgFailed,
          checkedAt |-> ToISOString(startedAt[i])]

\* C11: concurrent invocations are independent: a step in which the timer,
\* the abort signal or any other state of one invocation changes leaves the
\* state of every other invocation as it was, and the result an invocation
\* returns is the one its own request outcome calls for.
C11_Independent ==
  /\ [][\A i \in Calls :
          CallState(i)' # CallState(i) =>
            \A j \in Calls \ {i} : CallState(j)' = CallState(j)]_vars
  /\ [](\A i \in Calls : pc[i] = "done" => result[i] = OwnResult(i))

C11_Witness ==
  /\ startedAt[1] < startedAt[2]
  /\ timer[1] = "fired" /\ net[1] = "aborted" /\ pc[1] = "done"
  /\ now < deadline[2]
  /\ timer[2] = "cleared" /\ ~aborted[2]
  /\ pc[2] = "done" /\ result[2].status = "operational"

\* C12: each invocation issues exactly one HTTP request, on every path: an
\* invocation that has been called has issued one request, and no step
\* after a timeout, transport failure, non-2xx response or parse failure
\* issues another.
C12_OneRequest ==
  \A i \in Calls : requests[i] = (IF pc[i] = "idle" THEN 0 ELSE 1)

C12_Witness ==
  /\ pc[1] = "done" /\ net[1] = "failed" /\ requests[1] = 1
  /\ pc[2] = "done" /\ net[2] = "complete" /\ error[2] = "SyntaxError"
  /\ requests[2] = 1

\* C13: the message of every returned result is non-empty: for a classified
\* 2xx response it is the description when that is a non-empty string and
\* the fixed fallback when it is empty or absent; on failure it is "HTTP
\* <code>" or one of the two fixed diagnostic strings.
C13_MessagePresent ==
  \A i \in Calls :
    pc[i] = "done" =>
      /\ Len(result[i].message) > 0
      /\ IF net[i] = "complete" /\ error[i] = "none"
           THEN result[i].message =
                  (IF body[i].description = Str(<<"O", "K">>)
                     THEN <<"O", "K">>
                     ELSE MsgFallback)
           ELSE \/ result[i].message \in {MsgTimeout, MsgFailed}
                \/ /\ net[i] = "headers"
                   /\ SubSeq(result[i].message, 1, 5) = <<"H", "T", "T", "P", " ">>
                   /\ Len(result[i].message) = 8

C13_Witness ==
  /\ pc[1] = "done" /\ net[1] = "complete" /\ error[1] = "none"
  /\ body[1].description = Undefined
  /\ result[1].message = MsgFallback
  /\ pc[2] = "done" /\ net[2] = "complete" /\ error[2] = "none"
  /\ body[2].description = Str(<<>>)
  /\ result[2].message = MsgFallback

TimeoutResult(i) ==
  [status |-> "unknown", message |-> MsgTimeout,
   checkedAt |-> ToISOString(startedAt[i])]

FailedResult(i) ==
  [status |-> "unknown", message |-> MsgFailed,
   checkedAt |-> ToISOString(startedAt[i])]

\* C14: exactly one of the two racing outcomes determines the result: once
\* the timer has fired and aborted the request, no response is received,
\* read, parsed or classified for that invocation in any later step, and a
\* result it returns is the timeout result.
C14_AbortWinsRace ==
  /\ [](\A i \in Calls :
          error[i] = "AbortError" =>
            /\ timer[i] = "fired" /\ aborted[i] /\ net[i] = "aborted"
            /\ pc[i] \in {"catch", "done", "rejected"}
            /\ code[i] = 0 /\ ~bodyRead[i] /\ body[i] = NoBody
            /\ pc[i] = "done" => result[i] = TimeoutResult(i))
  /\ [][\A i \in Calls :
          error[i] = "AbortError" =>
            /\ error'[i] = "AbortError"
            /\ code'[i] = code[i]
            /\ bodyRead'[i] = bodyRead[i]
            /\ body'[i] = body[i]]_vars

C14_Witness ==
  \E i \in Calls :
    /\ error[i] = "AbortError" /\ timer[i] = "fired"
    /\ pc[i] = "done" /\ result[i].message = MsgTimeout
    /\ code[i] = 0

\* C15: the timer is cleared in the step that receives the response, before
\* the status code is inspected or the body is read: once a response has
\* been received the timer is cleared, the abort signal is never set, and
\* no result produced from that response comes from the timeout branch.
C15_ClearedOnResponse ==
  \A i \in Calls :
    (code[i] # 0 \/ bodyRead[i]) =>
      /\ timer[i] = "cleared"
      /\ ~aborted[i]
      /\ error[i] # "AbortError"
      /\ (pc[i] = "done" /\ error[i] # "none") => result[i].message # MsgTimeout
      /\ (pc[i] = "done" /\ net[i] = "headers") => result[i].message # MsgTimeout

C15_Witness ==
  \E i \in Calls :
    /\ pc[i] = "body" /\ code[i] = 200
    /\ timer[i] = "cleared" /\ ~aborted[i]
    /\ now >= deadline[i]

\* C16: a 2xx response whose body cannot be parsed as the expected
\* structure and a transport failure both return unknown with the same
\* generic check-failed message: the results differ in nothing.
C16_SameGenericFailure ==
  \A i \in Calls :
    ( /\ pc[i] = "done"
      /\ \/ net[i] = "failed"
         \/ net[i] = "complete" /\ (~body[i].json \/ ~body[i].hasStatus) ) =>
      result[i] = FailedResult(i)

C16_Witness ==
  /\ pc[1] = "done" /\ net[1] = "failed" /\ code[1] = 0
  /\ pc[2] = "done" /\ net[2] = "complete" /\ ~body[2].json
  /\ result[1].message = result[2].message
  /\ result[1].status = result[2].status

\* C17: a result of a failure path carries the timeout message only when
\* the invocation's own timer fired and aborted its request: a transport
\* failure, a non-2xx response or a parse failure without the timer firing
\* is never reported with the timeout message.
C17_TimeoutOnlyFromTimer ==
  \A i \in Calls :
    ( /\ pc[i] = "done"
      /\ ~(net[i] = "complete" /\ error[i] = "none")
      /\ result[i].message = MsgTimeout ) =>
      /\ timer[i] = "fired"
      /\ aborted[i]
      /\ net[i] = "aborted"
      /\ now >= startedAt[i] + TIMEOUT_MS

C17_Witness ==
  /\ pc[1] = "done" /\ net[1] = "aborted" /\ result[1].message = MsgTimeout
  /\ pc[2] = "done" /\ net[2] = "failed" /\ timer[2] = "armed"
  /\ result[2].message = MsgFailed

TypeOK ==
  /\ pc \in [Calls -> {"idle", "fetch", "body", "catch", "done", "rejected"}]
  /\ timer \in [Calls -> {"none", "armed", "cleared", "fired"}]
  /\ aborted \in [Calls -> BOOLEAN]
====
